---- MODULE Spec2Model ----
(***************************************************************************)
(* Model of the notesdesktop Tauri bootstrap.                              *)
(*                                                                         *)
(*   src/src-tauri/src/lib.rs     pub fn run()                             *)
(*   src/src-tauri/src/mobile.rs  pub fn mobile_main()                     *)
(*                                                                         *)
(* run() builds a tauri::Builder, registers plugins with it, installs a    *)
(* setup closure, calls Builder::run and unwraps the Result with expect.   *)
(* The host framework (Builder, the plugin store, the run loop) is not     *)
(* part of the repository; it is modelled as the environment of run(),     *)
(* from the interface description of the specification (section 6).        *)
(*                                                                         *)
(* mobile.rs is compiled only under cfg(mobile), as the module `mobile` of  *)
(* the library (lib.rs:3-6).  Its first line imports the library by its    *)
(* crate name, which is not an external crate of the library itself, so    *)
(* the mobile configuration does not build and mobile_main never runs.     *)
(*                                                                         *)
(* A process executes the bootstrap once.  To compare invocations the      *)
(* model lets the operating system launch the process again after it has   *)
(* ended, and keeps one record per finished invocation in `history`.       *)
(***************************************************************************)
EXTENDS Naturals, Sequences, FiniteSets

\* ---------------------------------------------------------------- bounds
MaxLaunches == 2        \* process launches observed
MaxEvents == 2          \* events the run loop processes before it is cut off
NumContexts == 2        \* distinct build-time contexts (generate_context!)

\* ------------------------------------------------------------- constants
\* Entry points: the desktop binary calls run() directly, the mobile
\* runtime calls mobile_main().
Entries == {"desktop", "mobile"}

Contexts == 1..NumContexts

\* lib.rs:21  the message handed to expect
ExpectMessage == "error while running tauri application"

\* A plausible slip: one more plugin at the end of the chain.
PluginOrderSix ==
    <<"shell", "opener", "notification", "dialog", "fs", "updater">>

\* A plausible slip: the chain in the order the prose lists the capabilities.
PluginOrderProse ==
    <<"shell", "dialog", "notification", "fs", "opener">>

\* A plausible slip: a copy-pasted line, shell registered twice.
PluginOrderDup ==
    <<"shell", "opener", "notification", "dialog", "shell">>

\* lib.rs:11-15  the .plugin(...) calls of run(), in program order
PluginOrder ==
    <<"shell", "opener", "notification", "dialog", "fs">>

Range(s) == {s[i] : i \in 1..Len(s)}

\* ------------------------------------------------------- host framework
\* tauri::Builder::default(): a builder with no plugin and no setup hook.
BuilderDefault == [plugins |-> <<>>, setup |-> "none"]

\* Builder::plugin(p): the plugin is added after those already registered.
BuilderPlugin(b, p) == [b EXCEPT !.plugins = Append(@, p)]

\* Builder::setup(h): the hook is stored, replacing the default.
BuilderSetup(b, h) == [b EXCEPT !.setup = h]

\* Outcomes of building the application from the builder and the context.
BuildOutcomes == {"Built", "Err"}

\* A run loop that hands Ok(()) back to its caller when it is done.
RunLoopOutcomesReturning == {"Ok", "Err"}

\* Outcomes of starting the run loop: it blocks for the life of the
\* process, or it yields a startup error.
RunLoopOutcomes == {"Blocked", "Err"}

\* ------------------------------------------------------------ the closure
\* A hook that fails.
SetupHookFailing(a) == [app |-> a, result |-> "Err"]

\* A hook that fails for one of the configurations.
SetupHookPartial(a) ==
    [app |-> a, result |-> IF a.context = 1 THEN "Err" ELSE "Ok"]

\* A hook that touches the application handle.
SetupHookMutating(a) ==
    [app |-> [a EXCEPT !.plugins = <<>>], result |-> "Ok"]

\* lib.rs:16-19  |_app: &mut App| { Ok(()) }
SetupHook(a) == [app |-> a, result |-> "Ok"]

\* The hooks a builder can hold.
CallHook(h, a) ==
    IF h = "closure" THEN SetupHook(a) ELSE [app |-> a, result |-> "Ok"]

\* -------------------------------------------------------- expect (lib.rs:21)
\* Debug form of the startup error carried by the Err of Builder::run.
ErrorDebug(e) ==
    CASE e = "build" -> "Build"
      [] e = "setup" -> "Setup"
      [] e = "loop" -> "Loop"
      [] OTHER -> ""

\* Result::expect(msg) on Err(e) panics with "{msg}: {e:?}".
PanicMessage(msg, e) == msg \o ": " \o ErrorDebug(e)

\* A slip that swallows the error (such as .ok()) and lets run() return.
ExpectResultSwallow(r, e) == [pc |-> "returned", message |-> ""]

\* Result::expect: an Err(e) panics with the message followed by the Debug
\* form of e, an Ok is unwrapped and run() reaches its closing brace
\* (lib.rs:22).
ExpectResult(r, e) ==
    IF r = "Err"
    THEN [pc |-> "aborted", message |-> PanicMessage(ExpectMessage, e)]
    ELSE [pc |-> "returned", message |-> ""]

VARIABLES
    pc,          \* position of the process
    entry,       \* entry point the process was started through
    context,     \* build-time context handed to Builder::run
    builder,     \* the tauri::Builder value threaded through the chain
    regCalls,    \* number of .plugin calls made
    app,         \* the application handle, once built
    hookCalls,   \* number of invocations of the setup hook
    hookResults, \* the results those invocations returned
    runCalls,    \* number of calls of Builder::run
    runResult,   \* "none", "Blocked", "Ok" or "Err"
    errCause,    \* the error inside Err: "none", "build", "setup" or "loop"
    events,      \* events processed by the run loop
    message,     \* message of the panic, "" if none
    trace,       \* calls made to the framework, in order
    launches,    \* launches so far
    history      \* one record per finished invocation

vars == <<pc, entry, context, builder, regCalls, app, hookCalls, hookResults,
          runCalls, runResult, errCause, events, message, trace, launches,
          history>>

NoApp == [context |-> 0, plugins |-> <<>>]

Init ==
    /\ pc = "idle"
    /\ entry = "none"
    /\ context = 0
    /\ builder = BuilderDefault
    /\ regCalls = 0
    /\ app = NoApp
    /\ hookCalls = 0
    /\ hookResults = <<>>
    /\ runCalls = 0
    /\ runResult = "none"
    /\ errCause = "none"
    /\ events = 0
    /\ message = ""
    /\ trace = <<>>
    /\ launches = 0
    /\ history = <<>>

\* The record kept of an invocation when its process ends.
Finished(outcome, msg) ==
    [entry |-> entry, context |-> context, outcome |-> outcome,
     plugins |-> builder.plugins, setup |-> builder.setup,
     regCalls |-> regCalls, hookCalls |-> hookCalls,
     hookResults |-> hookResults, runCalls |-> runCalls,
     errCause |-> errCause, message |-> msg, trace |-> trace]

\* ------------------------------------------------------------- actions
\* The application is built for and started through one of the entry
\* points: the desktop binary calls run(), the mobile runtime mobile_main().
Launch ==
    /\ pc = "idle"
    /\ launches < MaxLaunches
    /\ \E e \in Entries, c \in Contexts :
          /\ entry' = e
          /\ context' = c
          /\ pc' = IF e = "mobile" THEN "mobile_main" ELSE "run"
    /\ launches' = launches + 1
    /\ UNCHANGED <<builder, regCalls, app, hookCalls, hookResults, runCalls,
                   runResult, errCause, events, message, trace, history>>

\* lib.rs:1, 11-15  the external crates the library names
ExternCrates ==
    {"tauri", "tauri_plugin_shell", "tauri_plugin_opener",
     "tauri_plugin_notification", "tauri_plugin_dialog", "tauri_plugin_fs"}

\* mobile.rs:1  use notesdesktop_lib;
MobileImport == "notesdesktop_lib"

\* mobile.rs is a module of the library (lib.rs:4 mod mobile;): the import
\* resolves only if the name is an external crate of the library.
MobileImportResolves == MobileImport \in ExternCrates

\* mobile.rs:1-7  the mobile configuration: if the import resolves,
\* mobile_main() { notesdesktop_lib::run(); } forwards to run(); if not,
\* the library does not build (E0432) and there is nothing to run.
MobileMain ==
    /\ pc = "mobile_main"
    /\ IF MobileImportResolves
       THEN /\ pc' = "run"
            /\ UNCHANGED history
       ELSE /\ pc' = "unbuilt"
            /\ history' = Append(history, Finished("unbuilt", message))
    /\ UNCHANGED <<entry, context, builder, regCalls, app, hookCalls,
                   hookResults, runCalls, runResult, errCause, events,
                   message, trace, launches>>

\* lib.rs:10  tauri::Builder::default()
NewBuilder ==
    /\ pc = "run"
    /\ builder' = BuilderDefault
    /\ trace' = Append(trace, "default")
    /\ pc' = "registering"
    /\ UNCHANGED <<entry, context, regCalls, app, hookCalls, hookResults,
                   runCalls, runResult, errCause, events, message, launches,
                   history>>

\* lib.rs:11-15  the next .plugin(...) call of the chain
RegisterPlugin ==
    /\ pc = "registering"
    /\ regCalls < Len(PluginOrder)
    /\ builder' = BuilderPlugin(builder, PluginOrder[regCalls + 1])
    /\ regCalls' = regCalls + 1
    /\ trace' = Append(trace, PluginOrder[regCalls + 1])
    /\ UNCHANGED <<pc, entry, context, app, hookCalls, hookResults, runCalls,
                   runResult, errCause, events, message, launches, history>>

\* A chain in which .setup(...) was written after the first .plugin call.
InstallSetupEarly ==
    /\ pc = "registering"
    /\ \/ /\ regCalls = 1
          /\ builder.setup = "none"
          /\ builder' = BuilderSetup(builder, "closure")
          /\ trace' = Append(trace, "setup")
          /\ pc' = pc
       \/ /\ regCalls = Len(PluginOrder)
          /\ builder.setup = "closure"
          /\ pc' = "configured"
          /\ UNCHANGED <<builder, trace>>
    /\ UNCHANGED <<entry, context, regCalls, app, hookCalls, hookResults,
                   runCalls, runResult, errCause, events, message, launches,
                   history>>

\* lib.rs:16-19  .setup(closure), after the last .plugin call
InstallSetup ==
    /\ pc = "registering"
    /\ regCalls = Len(PluginOrder)
    /\ builder' = BuilderSetup(builder, "closure")
    /\ trace' = Append(trace, "setup")
    /\ pc' = "configured"
    /\ UNCHANGED <<entry, context, regCalls, app, hookCalls, hookResults,
                   runCalls, runResult, errCause, events, message, launches,
                   history>>

\* lib.rs:20  .run(tauri::generate_context!()): the framework builds the
\* application from the builder and the context, or fails to.
CallRun ==
    /\ pc = "configured"
    /\ runCalls' = runCalls + 1
    /\ trace' = Append(trace, "run")
    /\ \E o \in BuildOutcomes :
          IF o = "Built"
          THEN /\ app' = [context |-> context, plugins |-> builder.plugins]
               /\ pc' = "app_built"
               /\ UNCHANGED <<runResult, errCause>>
          ELSE /\ runResult' = "Err"
               /\ errCause' = "build"
               /\ pc' = "run_result"
               /\ UNCHANGED app
    /\ UNCHANGED <<entry, context, builder, regCalls, hookCalls, hookResults,
                   events, message, launches, history>>

\* The framework invokes the installed setup hook with the application
\* handle; an Err from the hook is a startup error.
InvokeHook ==
    /\ pc = "app_built"
    /\ LET r == CallHook(builder.setup, app) IN
          /\ app' = r.app
          /\ hookResults' = Append(hookResults, r.result)
          /\ IF r.result = "Ok"
             THEN /\ pc' = "initialized"
                  /\ UNCHANGED <<runResult, errCause>>
             ELSE /\ runResult' = "Err"
                  /\ errCause' = "setup"
                  /\ pc' = "run_result"
    /\ hookCalls' = hookCalls + 1
    /\ trace' = Append(trace, "hook")
    /\ UNCHANGED <<entry, context, builder, regCalls, runCalls, events,
                   message, launches, history>>

\* The framework starts the run loop.
StartLoop ==
    /\ pc = "initialized"
    /\ \E o \in RunLoopOutcomes :
          /\ runResult' = o
          /\ errCause' = IF o = "Err" THEN "loop" ELSE "none"
          /\ pc' = IF o = "Blocked" THEN "running" ELSE "run_result"
    /\ UNCHANGED <<entry, context, builder, regCalls, app, hookCalls,
                   hookResults, runCalls, events, message, trace, launches,
                   history>>

\* The run loop processes an event; run() stays inside the run call.
ProcessEvent ==
    /\ pc = "running"
    /\ events < MaxEvents
    /\ events' = events + 1
    /\ UNCHANGED <<pc, entry, context, builder, regCalls, app, hookCalls,
                   hookResults, runCalls, runResult, errCause, message,
                   trace, launches, history>>

\* The application terminates: the process ends inside the run call.
ProcessExit ==
    /\ pc = "running"
    /\ pc' = "exited"
    /\ history' = Append(history, Finished("exited", message))
    /\ UNCHANGED <<entry, context, builder, regCalls, app, hookCalls,
                   hookResults, runCalls, runResult, errCause, events,
                   message, trace, launches>>

\* lib.rs:21-22  .expect("error while running tauri application");
Expect ==
    /\ pc = "run_result"
    /\ LET r == ExpectResult(runResult, errCause) IN
          /\ pc' = r.pc
          /\ message' = r.message
          /\ trace' = IF r.pc = "aborted" THEN Append(trace, "panic")
                      ELSE Append(trace, "return")
          /\ history' = Append(history,
                [Finished(r.pc, r.message) EXCEPT !.trace = trace'])
    /\ UNCHANGED <<entry, context, builder, regCalls, app, hookCalls,
                   hookResults, runCalls, runResult, errCause, events,
                   launches>>

\* The process is gone; a later launch starts from a fresh process image.
Relaunch ==
    /\ pc \in {"aborted", "exited", "returned", "unbuilt"}
    /\ launches < MaxLaunches
    /\ pc' = "idle"
    /\ entry' = "none"
    /\ context' = 0
    /\ builder' = BuilderDefault
    /\ regCalls' = 0
    /\ app' = NoApp
    /\ hookCalls' = 0
    /\ hookResults' = <<>>
    /\ runCalls' = 0
    /\ runResult' = "none"
    /\ errCause' = "none"
    /\ events' = 0
    /\ message' = ""
    /\ trace' = <<>>
    /\ UNCHANGED <<launches, history>>

Next ==
    \/ Launch
    \/ MobileMain
    \/ NewBuilder
    \/ RegisterPlugin
    \/ InstallSetup
    \/ CallRun
    \/ InvokeHook
    \/ StartLoop
    \/ ProcessEvent
    \/ ProcessExit
    \/ Expect
    \/ Relaunch

Spec == Init /\ [][Next]_vars

\* Positions at which the chain of .plugin calls is complete.
AfterRegistration ==
    pc \in {"configured", "app_built", "initialized", "running",
            "run_result", "aborted", "exited", "returned"}

\* Positions at which Builder::run has been called.
AfterRunCall ==
    pc \in {"app_built", "initialized", "running", "run_result", "aborted",
            "exited", "returned"}

TypeOK ==
    /\ pc \in {"idle", "mobile_main", "run", "registering", "configured",
               "app_built", "initialized", "running", "run_result",
               "aborted", "exited", "returned", "unbuilt"}
    /\ entry \in Entries \cup {"none"}
    /\ regCalls \in 0..Len(PluginOrder)
    /\ hookCalls \in 0..1
    /\ runCalls \in 0..1
    /\ runResult \in {"none", "Blocked", "Ok", "Err"}
    /\ errCause \in {"none", "build", "setup", "loop"}
    /\ events \in 0..MaxEvents
    /\ launches \in 0..MaxLaunches
    /\ Len(history) <= launches

\* ------------------------------------------------------------ properties
\* Position of the first occurrence of x in s, 0 if there is none.
Pos(s, x) ==
    IF \E i \in 1..Len(s) : s[i] = x
    THEN CHOOSE i \in 1..Len(s) : s[i] = x /\ \A j \in 1..(i - 1) : s[j] # x
    ELSE 0

\* Entries of the trace that are not plugin registrations.
Steps == {"default", "setup", "run", "hook", "panic", "return", "mobile"}

AllDistinct(s) == \A i, j \in 1..Len(s) : i # j => s[i] # s[j]

\* The finished invocations in which run() was entered.
RunRecords == {i \in 1..Len(history) : history[i].outcome # "unbuilt"}

\* C1 (as stated): every invocation has registered exactly six plugins once
\* the chain of .plugin calls is complete.
C1_SixPlugins ==
    AfterRegistration => regCalls = 6 /\ Len(builder.plugins) = 6

\* C1 (amended): every invocation has registered exactly five plugins when
\* Builder::run is reached, no fewer and no more, and every finished
\* invocation registered the same set.
C1_FivePlugins ==
    /\ regCalls <= 5
    /\ Len(builder.plugins) = regCalls
    /\ AfterRegistration =>
          /\ regCalls = 5
          /\ Cardinality(Range(builder.plugins)) = 5
    /\ \A i \in RunRecords :
          /\ history[i].regCalls = 5
          /\ Len(history[i].plugins) = 5
          /\ \A j \in RunRecords :
                Range(history[i].plugins) = Range(history[j].plugins)
          /\ AfterRegistration =>
                Range(builder.plugins) = Range(history[i].plugins)

C1_Witness ==
    /\ Cardinality(RunRecords) >= 2
    /\ pc = "exited"
    /\ Len(builder.plugins) = 5

\* C2 (as stated): the plugins are registered in the order shell, dialog,
\* notification, filesystem, opener.
C2_ProseOrder ==
    AfterRegistration =>
        builder.plugins = <<"shell", "dialog", "notification", "fs", "opener">>

\* C2 (amended): the plugins are registered in one fixed order, the same on
\* every invocation: shell, opener, notification, dialog, filesystem; at
\* every moment the registered plugins are a prefix of that order.
C2_CodeOrder ==
    LET order == <<"shell", "opener", "notification", "dialog", "fs">> IN
    /\ Len(builder.plugins) <= Len(order)
    /\ \A i \in 1..Len(builder.plugins) : builder.plugins[i] = order[i]
    /\ AfterRegistration => builder.plugins = order
    /\ \A i \in RunRecords : history[i].plugins = order

C2_Witness ==
    /\ RunRecords # {}
    /\ pc = "configured"
    /\ builder.plugins[2] = "opener"
    /\ builder.plugins[5] = "fs"

\* C3 (as stated): once Builder::run has yielded a startup error, the only
\* step of the process is the panic, whose message is the fixed text
\* "error while running tauri application": nothing is retried, undone or
\* cleaned up, and run() does not return.
C3_FixedMessage ==
    [][/\ (pc = "run_result" /\ runResult = "Err") =>
            /\ pc' = "aborted"
            /\ message' = "error while running tauri application"
            /\ builder' = builder
            /\ app' = app
            /\ runCalls' = runCalls
            /\ hookCalls' = hookCalls
            /\ regCalls' = regCalls
       /\ pc = "aborted" => pc' = "idle"
       /\ runResult = "Err" => pc' # "returned"]_vars

\* C3 (amended): once Builder::run has yielded a startup error, the only
\* step of the process is the panic, whose message is the fixed text
\* "error while running tauri application" followed by ": " and the Debug
\* form of the error: the run call is not repeated, the builder, its
\* plugins and the application are left as they are, run() does not
\* return, and the aborted process takes no further step (only a new
\* process can be launched).
C3_FailureAborts ==
    [][/\ (pc = "run_result" /\ runResult = "Err") =>
            /\ pc' = "aborted"
            /\ errCause = "build" =>
                  message' = "error while running tauri application: Build"
            /\ errCause = "loop" =>
                  message' = "error while running tauri application: Loop"
            /\ errCause \in {"build", "loop"}
            /\ SubSeq(message', 1, 37) =
                  "error while running tauri application"
            /\ builder' = builder
            /\ app' = app
            /\ runCalls' = runCalls
            /\ hookCalls' = hookCalls
            /\ regCalls' = regCalls
       /\ pc = "aborted" => pc' = "idle"
       /\ runResult = "Err" => pc' # "returned"]_vars

C3_Witness ==
    /\ pc = "aborted"
    /\ errCause = "loop"
    /\ message = PanicMessage(ExpectMessage, "loop")
    /\ runCalls = 1

\* C4: once the run loop has started successfully, run() never returns to
\* its caller: the process stays in the one run call until it ends.
C4_NeverReturns ==
    [][/\ runResult \in {"Blocked", "Ok"} => pc' # "returned"
       /\ pc = "running" =>
            /\ pc' \in {"running", "exited"}
            /\ runCalls' = runCalls]_vars

C4_Witness ==
    /\ pc = "running"
    /\ runResult = "Blocked"
    /\ events >= 1

\* C5: the setup hook is invoked at most once per invocation, exactly once
\* when the run loop has started, every invocation of it returns Ok, and
\* it is never the cause of a startup error.
C5_HookOnceOk ==
    /\ hookCalls <= 1
    /\ Len(hookResults) = hookCalls
    /\ pc \in {"initialized", "running", "exited"} => hookCalls = 1
    /\ \A i \in 1..Len(hookResults) : hookResults[i] = "Ok"
    /\ errCause # "setup"
    /\ \A i \in 1..Len(history) :
          /\ history[i].hookCalls <= 1
          /\ history[i].outcome = "exited" => history[i].hookCalls = 1
          /\ \A k \in 1..Len(history[i].hookResults) :
                history[i].hookResults[k] = "Ok"

C5_Witness ==
    /\ pc = "running"
    /\ hookCalls = 1
    /\ hookResults = <<"Ok">>
    /\ builder.setup = "closure"

\* C6: an invocation through mobile_main forwards to run() and makes the
\* same calls as a direct invocation of run(): under the same outcome of
\* the framework, the registrations, the installed hook, the hook
\* invocations, the run call and the failure behaviour are identical.
C6_MobileEquivalent ==
    /\ entry = "mobile" => pc # "unbuilt"
    /\ \A i, j \in 1..Len(history) :
        (/\ history[i].entry = "mobile"
         /\ history[j].entry = "desktop"
         /\ history[i].errCause = history[j].errCause) =>
            /\ history[i].trace = history[j].trace
            /\ history[i].plugins = history[j].plugins
            /\ history[i].setup = history[j].setup
            /\ history[i].hookCalls = history[j].hookCalls
            /\ history[i].hookResults = history[j].hookResults
            /\ history[i].runCalls = history[j].runCalls
            /\ history[i].outcome = history[j].outcome
            /\ history[i].message = history[j].message

\* C7: within one invocation the builder is constructed first, then all
\* plugins are registered, then the hook is installed, then the run call is
\* made; the hook is invoked after all registrations and before the run
\* loop runs.
C7_StepOrder ==
    /\ trace # <<>> => trace[1] = "default"
    /\ \A k \in 1..Len(trace) :
          trace[k] \notin Steps =>
             /\ Pos(trace, "default") < k
             /\ Pos(trace, "setup") \in {0} \cup (k + 1)..Len(trace)
             /\ Pos(trace, "run") \in {0} \cup (k + 1)..Len(trace)
             /\ Pos(trace, "hook") \in {0} \cup (k + 1)..Len(trace)
    /\ Pos(trace, "setup") # 0 =>
          Cardinality({k \in 1..Pos(trace, "setup") : trace[k] \notin Steps})
             = Len(PluginOrder)
    /\ Pos(trace, "run") # 0 =>
          /\ Pos(trace, "setup") # 0
          /\ Pos(trace, "setup") < Pos(trace, "run")
    /\ Pos(trace, "hook") # 0 => Pos(trace, "run") # 0
    /\ (pc = "running" \/ events > 0) =>
          /\ Pos(trace, "hook") # 0
          /\ Pos(trace, "run") < Pos(trace, "hook")

C7_Witness ==
    /\ pc = "running"
    /\ events >= 1
    /\ trace = <<"default", "shell", "opener", "notification", "dialog",
                 "fs", "setup", "run", "hook">>

\* C8: the abort is reached only from a startup error reported by the run
\* call; the registrations and the hook never cause it, and no diagnostic
\* or error result exists anywhere else.
C8_OneErrorPath ==
    /\ pc = "aborted" =>
          /\ runResult = "Err"
          /\ runCalls = 1
          /\ errCause \in {"build", "loop"}
    /\ runResult = "Err" =>
          /\ pc \in {"run_result", "aborted"}
          /\ runCalls = 1
          /\ errCause \in {"build", "loop"}
    /\ message # "" => pc = "aborted"
    /\ pc \in {"idle", "mobile_main", "unbuilt", "run", "registering",
              "configured"} =>
          runResult = "none" /\ errCause = "none"
    /\ \A i \in 1..Len(history) :
          history[i].outcome = "aborted" =>
             history[i].errCause \in {"build", "loop"}

C8_Witness ==
    /\ pc = "aborted"
    /\ errCause = "build"
    /\ hookCalls = 0
    /\ regCalls = 5

\* C9: the invocation of the setup hook leaves the application handle, the
\* builder and its registered plugins as they were.
C9_HookNoOp ==
    [][hookCalls' > hookCalls =>
          /\ app' = app
          /\ app'.plugins = builder.plugins
          /\ builder' = builder
          /\ regCalls' = regCalls]_vars

C9_Witness ==
    /\ pc = "initialized"
    /\ hookCalls = 1
    /\ app = [context |-> context, plugins |-> builder.plugins]
    /\ Len(app.plugins) = 5

\* C10: no plugin is registered twice: the registered plugins are pairwise
\* distinct, and when the run call is made the number of .plugin calls is
\* the number of distinct plugins.
C10_Distinct ==
    /\ AllDistinct(builder.plugins)
    /\ AfterRegistration => regCalls = Cardinality(Range(builder.plugins))
    /\ \A i \in RunRecords :
          /\ history[i].regCalls = Cardinality(Range(history[i].plugins))
          /\ history[i].regCalls = 5

C10_Witness ==
    /\ pc = "app_built"
    /\ regCalls = 5
    /\ Cardinality(Range(app.plugins)) = 5
====
